---- MODULE Spec2Model ----
(***************************************************************************)
(* fl-dwd-warnings: the POST /api/warnings pipeline of src/main.py         *)
(*   parse -> extract single feature -> bbox -> clamp max -> cache cleanup *)
(*   -> cache lookup -> [miss] upstream WFS request -> cache store         *)
(*   -> normalise / assemble -> JSON response.                             *)
(*                                                                         *)
(* JSON values are tagged records (field k is the Python type):            *)
(*   null, absent key, number, string, list, dict.  Coordinates are        *)
(* integers counting 1e-7 degree, so that formatting with six fractional   *)
(* digits (the cache key) really rounds.  Wall-clock time (time.time())    *)
(* is an integer number of clock units.                                    *)
(***************************************************************************)
EXTENDS Integers, Sequences, FiniteSets, TLC

(***************************************************************************)
(* Bounds of the model.  CACHE_TTL_SECONDS and MAX_CACHE_ITEMS are read    *)
(* from the environment (src/main.py:56-57, defaults 20 and 200); the      *)
(* model runs a deployment configured with small values.                   *)
(***************************************************************************)
MaxClock == 3
CACHE_TTL_SECONDS == 1
MAX_CACHE_ITEMS == 2

NumWorkers == 1
MaxRing == 2
MaxFeats == 2

MAX_FEATURES == 800
MAX_FEATURES_CAP == 2000
MIN_FEATURES_CAP == 1
DWD_TYPENAME == "dwd:Warnungen_Gemeinden_vereinigt"

(***************************************************************************)
(* JSON values                                                             *)
(***************************************************************************)
None == [k |-> "null"]
Absent == [k |-> "absent"]
Num(n) == [k |-> "num", v |-> n]
Str(s) == [k |-> "str", s |-> s]
Arr(s) == [k |-> "arr", items |-> s]
Dict(t, g, f, c, p) ==
  [k |-> "dict", type |-> t, geometry |-> g, features |-> f, coordinates |-> c,
   properties |-> p]
EmptyDict == Dict(Absent, Absent, Absent, Absent, Absent)

\* dict.get(key): an absent key reads as None
Get(d, key) == IF d[key] = Absent THEN None ELSE d[key]
\* key in dict
HasKey(d, key) == d[key] # Absent

\* Python truthiness of a JSON value
Truthy(v) ==
  CASE v.k = "null" -> FALSE
    [] v.k = "absent" -> FALSE
    [] v.k = "num" -> v.v # 0
    [] v.k = "str" -> v.s # ""
    [] v.k = "arr" -> Len(v.items) > 0
    [] v.k = "dict" -> v # EmptyDict
    [] v.k = "props" -> DOMAIN v.m # {}
    [] OTHER -> TRUE

\* Results of functions that may raise
Ok(v) == [ok |-> TRUE, val |-> v]
Raise(exc, msg) == [ok |-> FALSE, exc |-> exc, msg |-> msg]

MSG_NO_GEOJSON == "Kein GeoJSON übergeben."
MSG_EMPTY_STRING == "Leerer GeoJSON-String."
MSG_NOT_OBJECT == "GeoJSON muss ein JSON-Objekt oder String sein."
MSG_NO_GEOMETRY == "Feature ohne geometry."
MSG_SINGLE_FEATURE == "FeatureCollection muss genau 1 Feature enthalten."
MSG_NO_VALID_FEATURE == "FeatureCollection enthält kein gültiges Feature."
MSG_UNSUPPORTED == "Nicht unterstützter GeoJSON-Typ."
MSG_BAD_FEATURE == "Ungültiges Feature: keine Geometry."
MSG_NOT_POLYGON == "AOI muss Polygon oder MultiPolygon sein."
MSG_NO_COORDS == "AOI enthält keine Koordinaten."

(***************************************************************************)
(* GeoJSON builders for the inputs                                         *)
(***************************************************************************)
Pos2(x, y) == Arr(<<Num(x), Num(y)>>)
Pos3(x, y, z) == Arr(<<Num(x), Num(y), Num(z)>>)
Geometry(t, coords) == Dict(Str(t), Absent, Absent, coords, Absent)
Polygon(ring) == Geometry("Polygon", Arr(<<Arr(ring)>>))
MultiPolygon(ringA, ringB) ==
  Geometry("MultiPolygon", Arr(<<Arr(<<Arr(ringA)>>), Arr(<<Arr(ringB)>>)>>))
Feature(geom) == Dict(Str("Feature"), geom, Absent, Absent, EmptyDict)
FeatureCollection(feats) == Dict(Str("FeatureCollection"), Absent, Arr(feats), Absent, Absent)

(***************************************************************************)
(* _parse_geojson                                                          *)
(***************************************************************************)
\* json.loads on the texts the inputs use: the text is named by what it encodes
JsonLoads(text) ==
  CASE text = "polygon-A" -> Ok(Polygon(<<Pos2(0, 0), Pos2(20, 20)>>))
    [] text = "[1, 2]" -> Ok(Arr(<<Num(1), Num(2)>>))
    [] OTHER -> Raise("JSONDecodeError", "Expecting value")

\* str.strip() of the texts the inputs use
Strip(text) == IF text = " " THEN "" ELSE text

_parse_geojson(payload) ==
  CASE payload.k \in {"null", "absent"} -> Raise("ValueError", MSG_NO_GEOJSON)
    [] payload.k = "str" ->
         IF Strip(payload.s) = "" THEN Raise("ValueError", MSG_EMPTY_STRING)
         ELSE JsonLoads(Strip(payload.s))
    [] payload.k = "dict" -> Ok(payload)
    [] OTHER -> Raise("ValueError", MSG_NOT_OBJECT)

(***************************************************************************)
(* _extract_single_feature_geojson                                         *)
(***************************************************************************)
\* gj.get("properties") or {}
PropsOrEmpty(d) == IF Truthy(Get(d, "properties")) THEN Get(d, "properties") ELSE EmptyDict

\* variant: a collection is accepted as soon as it has a first feature
ExtractFromCollectionFirst(gj) ==
  LET feats == IF Truthy(Get(gj, "features")) THEN Get(gj, "features") ELSE Arr(<<>>)
  IN  IF feats.k # "arr" THEN Raise("TypeError", "object has no len()")
      ELSE IF Len(feats.items) < 1 THEN Raise("ValueError", MSG_SINGLE_FEATURE)
      ELSE LET f == feats.items[1]
           IN  IF f.k # "dict" \/ Get(f, "type") # Str("Feature")
                 THEN Raise("ValueError", MSG_NO_VALID_FEATURE)
               ELSE IF ~Truthy(Get(f, "geometry"))
                 THEN Raise("ValueError", MSG_NO_GEOMETRY)
               ELSE Ok(Dict(Str("Feature"), Get(f, "geometry"), Absent, Absent,
                            PropsOrEmpty(f)))

ExtractFromCollection(gj) ==
  LET feats == IF Truthy(Get(gj, "features")) THEN Get(gj, "features") ELSE Arr(<<>>)
  IN  IF feats.k # "arr" THEN Raise("TypeError", "object has no len()")
      ELSE IF Len(feats.items) # 1 THEN Raise("ValueError", MSG_SINGLE_FEATURE)
      ELSE LET f == feats.items[1]
           IN  IF f.k # "dict" \/ Get(f, "type") # Str("Feature")
                 THEN Raise("ValueError", MSG_NO_VALID_FEATURE)
               ELSE IF ~Truthy(Get(f, "geometry"))
                 THEN Raise("ValueError", MSG_NO_GEOMETRY)
               ELSE Ok(Dict(Str("Feature"), Get(f, "geometry"), Absent, Absent,
                            PropsOrEmpty(f)))

_extract_single_feature_geojson(gj) ==
  IF gj.k # "dict" THEN Raise("AttributeError", "object has no attribute 'get'")
  ELSE LET t == Get(gj, "type")
       IN  CASE t = Str("Feature") ->
                  IF ~Truthy(Get(gj, "geometry"))
                    THEN Raise("ValueError", MSG_NO_GEOMETRY)
                  ELSE Ok(Dict(Str("Feature"), Get(gj, "geometry"), Absent, Absent,
                               PropsOrEmpty(gj)))
             [] t = Str("FeatureCollection") -> ExtractFromCollection(gj)
             [] t \in {Str("Polygon"), Str("MultiPolygon")} ->
                  Ok(Dict(Str("Feature"), gj, Absent, Absent, EmptyDict))
             [] OTHER -> Raise("ValueError", MSG_UNSUPPORTED)

(***************************************************************************)
(* _iter_coords_from_geom and _geojson_feature_to_bbox_crs84               *)
(***************************************************************************)
RECURSIVE walk(_)
RECURSIVE walkItems(_, _)
\* walk: a list of exactly two numbers is a coordinate pair; any other list
\* is descended into; anything that is not a list yields nothing
walk(obj) ==
  IF obj.k # "arr" THEN <<>>
  ELSE IF Len(obj.items) = 2 /\ \A i \in 1..2 : obj.items[i].k = "num"
    THEN << <<obj.items[1].v, obj.items[2].v>> >>
  ELSE walkItems(obj.items, 1)
walkItems(items, i) ==
  IF i > Len(items) THEN <<>> ELSE walk(items[i]) \o walkItems(items, i + 1)

_iter_coords_from_geom(geom) ==
  IF ~Truthy(Get(geom, "type")) \/ Get(geom, "coordinates") = None THEN <<>>
  ELSE walk(Get(geom, "coordinates"))

SeqMin(s) == CHOOSE m \in {s[i] : i \in 1..Len(s)} : \A i \in 1..Len(s) : m <= s[i]
SeqMax(s) == CHOOSE m \in {s[i] : i \in 1..Len(s)} : \A i \in 1..Len(s) : m >= s[i]

_geojson_feature_to_bbox_crs84(feature) ==
  LET geom == Get(feature, "geometry")
  IN  IF geom.k # "dict" \/ ~HasKey(geom, "type")
        THEN Raise("ValueError", MSG_BAD_FEATURE)
      ELSE IF Get(geom, "type") \notin {Str("Polygon"), Str("MultiPolygon")}
        THEN Raise("ValueError", MSG_NOT_POLYGON)
      ELSE LET pairs == _iter_coords_from_geom(geom)
               xs == [i \in 1..Len(pairs) |-> pairs[i][1]]
               ys == [i \in 1..Len(pairs) |-> pairs[i][2]]
           IN  IF Len(xs) = 0 \/ Len(ys) = 0
                 THEN Raise("ValueError", MSG_NO_COORDS)
               ELSE Ok(<<SeqMin(xs), SeqMin(ys), SeqMax(xs), SeqMax(ys)>>)

(***************************************************************************)
(* Property normaliser: _pick, _parse_iso_dt, _format_dt_local,            *)
(* _normalize_feature_properties.  A property mapping is                   *)
(* [k |-> "props", m |-> f] with f a function from key names to values.    *)
(***************************************************************************)
Props(f) == [k |-> "props", m |-> f]
NoProps == Props(<<>>)

\* variant: only None is skipped, an empty string is taken
NonEmptyNotNone(v) == v # None

\* props.get(k) not in (None, "")
NonEmpty(v) == v # None /\ v # Str("")

RECURSIVE PickFrom(_, _, _)
PickFrom(props, keys, i) ==
  IF i > Len(keys) THEN None
  ELSE IF keys[i] \in DOMAIN props.m /\ NonEmpty(props.m[keys[i]])
    THEN props.m[keys[i]]
  ELSE PickFrom(props, keys, i + 1)

_pick(props, keys) == PickFrom(props, keys, 1)

HEADLINE_KEYS == <<"HEADLINE", "headline", "Headline", "EVENT", "event", "DESCRIPTION", "description">>
EXPIRES_KEYS == <<"EXPIRES", "expires", "Expires", "GUELTIG_BIS", "gueltig_bis", "VALID_UNTIL", "valid_until">>
ONSET_KEYS == <<"ONSET", "onset", "Onset", "EFFECTIVE", "effective">>
SEVERITY_KEYS == <<"SEVERITY", "severity", "WARNSTUFE", "warnstufe", "LEVEL", "level">>
AREA_KEYS == <<"AREADESC", "areadesc", "NAME", "name">>
ID_KEYS == <<"WARNCELLID", "warncellid", "ID", "id", "EC_II", "EC_GROUP", "EVENT", "STATUS", "MSGTYPE">>

\* datetime.fromisoformat on the texts the inputs use (after strip and Z -> +00:00)
IsoTexts == {"2024-05-01T10:00:00Z", "2024-05-02T18:30:00+02:00"}

\* _parse_iso_dt: None for a falsy value, a datetime for a number or an ISO text
_parse_iso_dt(value) ==
  IF ~Truthy(value) THEN None
  ELSE IF value.k = "num" THEN [k |-> "datetime", of |-> value]
  ELSE IF value.k # "str" THEN None
  ELSE IF value.s \in IsoTexts THEN [k |-> "datetime", of |-> value]
  ELSE None

\* _format_dt_local: "YYYY-MM-DD HH:MM TZ" of the datetime in LOCAL_TZ
_format_dt_local(dt) ==
  IF dt = None THEN None ELSE [k |-> "localtime", of |-> dt.of]

Field(key, v) == [x \in {key} |-> v]
Merge(f, g) == [x \in (DOMAIN f) \cup (DOMAIN g) |-> IF x \in DOMAIN g THEN g[x] ELSE f[x]]

RECURSIVE CopyIds(_, _, _)
CopyIds(props, out, i) ==
  IF i > Len(ID_KEYS) THEN out
  ELSE IF ID_KEYS[i] \in DOMAIN props.m /\ NonEmpty(props.m[ID_KEYS[i]])
    THEN CopyIds(props, Merge(out, Field(ID_KEYS[i], props.m[ID_KEYS[i]])), i + 1)
  ELSE CopyIds(props, out, i + 1)

_normalize_feature_properties(props) ==
  LET headline == _pick(props, HEADLINE_KEYS)
      expires_raw == _pick(props, EXPIRES_KEYS)
      onset_raw == _pick(props, ONSET_KEYS)
      severity == _pick(props, SEVERITY_KEYS)
      area == _pick(props, AREA_KEYS)
      out == [kurztext |-> headline,
              gueltig_bis |-> expires_raw,
              gueltig_bis_local |-> _format_dt_local(_parse_iso_dt(expires_raw)),
              gueltig_ab |-> onset_raw,
              gueltig_ab_local |-> _format_dt_local(_parse_iso_dt(onset_raw)),
              severity |-> severity,
              gebiet |-> area]
  IN  CopyIds(props, out, 1)

(***************************************************************************)
(* _build_featurecollection                                                *)
(***************************************************************************)
\* an upstream feature-list entry that is a dict
UpFeature(t, geom, props) == Dict(t, geom, Absent, Absent, props)

\* if not isinstance(f, dict) or f.get("type") != "Feature": continue
IsFeature(f) == f.k = "dict" /\ Get(f, "type") = Str("Feature")

\* props_raw = f.get("properties") or {}; a non-dict becomes {}
PropsRaw(f) ==
  LET p == Get(f, "properties")
  IN  IF Truthy(p) /\ p.k = "props" THEN p ELSE NoProps

\* variant: the output properties are the normalised set alone
OutFeatureNormOnly(f) ==
  [type |-> "Feature",
   geometry |-> Get(f, "geometry"),
   properties |-> _normalize_feature_properties(PropsRaw(f))]

OutFeature(f) ==
  [type |-> "Feature",
   geometry |-> Get(f, "geometry"),
   properties |-> Merge(_normalize_feature_properties(PropsRaw(f)),
                        Field("properties_raw", PropsRaw(f)))]

\* a or b
Or(a, b) == IF Truthy(a) THEN a ELSE b

SummaryOf(f) ==
  LET norm == _normalize_feature_properties(PropsRaw(f))
  IN  [kurztext |-> norm["kurztext"],
       gueltig_ab_local |-> Or(norm["gueltig_ab_local"], norm["gueltig_ab"]),
       gueltig_bis_local |-> Or(norm["gueltig_bis_local"], norm["gueltig_bis"]),
       severity |-> norm["severity"],
       gebiet |-> norm["gebiet"]]

\* the loop body: what one entry of feats appends to out_feats and to summary
AppendOutFeat(out_feats, f) == IF IsFeature(f) THEN Append(out_feats, OutFeature(f)) ELSE out_feats
\* variant: the summary loop tests only that the entry is a dict
AppendSummaryAnyDict(summary, f) ==
  IF f.k = "dict" THEN Append(summary, SummaryOf(f)) ELSE summary
AppendSummary(summary, f) == IF IsFeature(f) THEN Append(summary, SummaryOf(f)) ELSE summary

RECURSIVE BuildLoop(_, _, _, _)
BuildLoop(feats, i, out_feats, summary) ==
  IF i > Len(feats) THEN [out_feats |-> out_feats, summary |-> summary]
  ELSE BuildLoop(feats, i + 1, AppendOutFeat(out_feats, feats[i]),
                 AppendSummary(summary, feats[i]))

\* feats = raw_fc.get("features") or []; iterating a number raises TypeError
_build_featurecollection(raw_fc, bbox) ==
  LET feats == IF Truthy(raw_fc.features) THEN raw_fc.features ELSE Arr(<<>>)
      r == BuildLoop(feats.items, 1, <<>>, <<>>)
  IN  IF feats.k # "arr" THEN Raise("TypeError", "object is not iterable")
      ELSE Ok([type |-> "FeatureCollection",
               features |-> r.out_feats,
               meta |-> [source |-> "DWD WFS",
                         typeName |-> DWD_TYPENAME,
                         bbox |-> bbox,
                         count |-> Len(r.out_feats),
                         summary |-> r.summary]])

(***************************************************************************)
(* In-memory cache: _feature_cache is a dict, modelled as the sequence of  *)
(* its items in dict (insertion) order; an item is [key, ts, data].        *)
(***************************************************************************)
Abs(x) == IF x < 0 THEN -x ELSE x

\* f"{x:.6f}" of a coordinate counted in 1e-7: the sign character and the
\* decimal digits, rounded half-even to 1e-6 ("-0.000000" keeps its sign)
Fmt6(x) ==
  LET q == Abs(x) \div 10
      r == Abs(x) % 10
      up == r > 5 \/ (r = 5 /\ q % 2 = 1)
  IN  [neg |-> x < 0, micro |-> IF up THEN q + 1 ELSE q]

\* variant: the key leaves out the feature count
_feature_cache_key_no_max(bbox, max_features) ==
  <<DWD_TYPENAME, Fmt6(bbox[1]), Fmt6(bbox[2]), Fmt6(bbox[3]), Fmt6(bbox[4])>>

_feature_cache_key(bbox, max_features) ==
  <<DWD_TYPENAME, Fmt6(bbox[1]), Fmt6(bbox[2]), Fmt6(bbox[3]), Fmt6(bbox[4]), max_features>>

CacheKeys(c) == {c[i].key : i \in 1..Len(c)}
\* _feature_cache.get(key)
CacheGet(c, key) ==
  IF key \in CacheKeys(c) THEN (CHOOSE i \in 1..Len(c) : c[i].key = key) ELSE 0

\* variant: an entry already under the key is kept (setdefault)
CachePutIfAbsent(c, key, ts, data) ==
  IF key \in CacheKeys(c) THEN c ELSE Append(c, [key |-> key, ts |-> ts, data |-> data])

\* _feature_cache[key] = CacheEntry(ts, data): an existing key keeps its place
CachePut(c, key, ts, data) ==
  LET e == [key |-> key, ts |-> ts, data |-> data]
  IN  IF key \in CacheKeys(c)
        THEN [i \in 1..Len(c) |-> IF c[i].key = key THEN e ELSE c[i]]
      ELSE Append(c, e)

\* dead = [k for k, v in items if (now - v.ts) > CACHE_TTL_SECONDS]
IsDead(e, now) == (now - e.ts) > CACHE_TTL_SECONDS
DropDead(c, now) == SelectSeq(c, LAMBDA e : ~IsDead(e, now))

\* sorted(items, key=ts, reverse=True): stable, equal ts keep dict order
RECURSIVE InsertDesc(_, _)
InsertDesc(sorted, e) ==
  IF sorted = <<>> THEN <<e>>
  ELSE IF Head(sorted).ts >= e.ts THEN <<Head(sorted)>> \o InsertDesc(Tail(sorted), e)
  ELSE <<e>> \o sorted
RECURSIVE SortDesc(_, _, _)
SortDesc(c, i, acc) == IF i > Len(c) THEN acc ELSE SortDesc(c, i + 1, InsertDesc(acc, c[i]))

\* keep = dict(items[:MAX_CACHE_ITEMS])
KeepNewest(c) ==
  IF Len(c) > MAX_CACHE_ITEMS THEN SubSeq(SortDesc(c, 1, <<>>), 1, MAX_CACHE_ITEMS) ELSE c

_feature_cache_cleanup(c, now) == KeepNewest(DropDead(c, now))

\* variant: any entry found under the key is a hit
IsHitAnyAge(c, key, now) == CacheGet(c, key) # 0

\* hit and (now - hit.ts) <= CACHE_TTL_SECONDS
IsHit(c, key, now) ==
  /\ CacheGet(c, key) # 0
  /\ (now - c[CacheGet(c, key)].ts) <= CACHE_TTL_SECONDS

(***************************************************************************)
(* Upstream client: _http_get, _http_get_json and the type check of        *)
(* _fetch_dwd_warnings_geojson.  The upstream reply is the environment's   *)
(* choice; a collection carries the query it answers.                      *)
(***************************************************************************)
UpstreamFailures == {"transport", "http_status", "not_json", "not_object", "wrong_type"}

UpstreamError(kind) ==
  CASE kind = "transport" -> Raise("RuntimeError", "DWD Request fehlgeschlagen")
    [] kind = "http_status" -> Raise("RuntimeError", "DWD WFS Upstream HTTP 500. Auszug")
    [] kind = "not_json" -> Raise("RuntimeError", "DWD WFS JSON Parse Error")
    [] kind = "not_object" -> Raise("RuntimeError", "DWD WFS lieferte kein JSON-Objekt.")
    [] OTHER -> Raise("RuntimeError", "DWD WFS lieferte keine GeoJSON FeatureCollection.")

Collection(feats, bbox, count) ==
  [type |-> "FeatureCollection", features |-> feats, query |-> <<bbox, count>>]

\* variant: the type of the JSON object is not checked
FetchResultUntyped(reply, bbox, count) ==
  IF reply.kind \in UpstreamFailures \ {"wrong_type"} THEN UpstreamError(reply.kind)
  ELSE Ok(Collection(Arr(<<>>), bbox, count))

\* _http_get_json followed by js.get("type") != "FeatureCollection"
FetchResult(reply, bbox, count) ==
  IF reply.kind \in UpstreamFailures THEN UpstreamError(reply.kind)
  ELSE Ok(Collection(reply.feats, bbox, count))

(***************************************************************************)
(* api_warnings: the request body and the steps before the cache           *)
(***************************************************************************)
\* The parsed JSON body: its "geojson", "aoi" and "max" keys, and the body
\* read as GeoJSON itself (self); json_ok is FALSE when get_json raises
Body(geojson, aoi, self, max) ==
  [json_ok |-> TRUE, geojson |-> geojson, aoi |-> aoi, self |-> self, max |-> max]
BadBody == [json_ok |-> FALSE, geojson |-> Absent, aoi |-> Absent, self |-> EmptyDict,
            max |-> Absent]

\* body.get("geojson") if "geojson" in body else (body.get("aoi") if "aoi" in body else body)
PayloadOf(body) ==
  IF HasKey(body, "geojson") THEN Get(body, "geojson")
  ELSE IF HasKey(body, "aoi") THEN Get(body, "aoi")
  ELSE body.self

\* int(body.get("max", MAX_FEATURES))
IntOfMax(body) ==
  CASE body.max = Absent -> Ok(MAX_FEATURES)
    [] body.max.k = "num" -> Ok(body.max.v)
    [] body.max.k = "str" -> Raise("ValueError", "invalid literal for int() with base 10")
    [] OTHER -> Raise("TypeError", "int() argument must be a string or a number")

\* variant: only the upper limit is applied
ClampUpperOnly(n) == IF n < MAX_FEATURES_CAP THEN n ELSE MAX_FEATURES_CAP

\* max(1, min(max_n, 2000))
Clamp(n) ==
  LET lo == IF n < MAX_FEATURES_CAP THEN n ELSE MAX_FEATURES_CAP
  IN  IF lo > MIN_FEATURES_CAP THEN lo ELSE MIN_FEATURES_CAP

\* the try block of api_warnings up to the call of _fetch_dwd_warnings_geojson
Prepare(body) ==
  IF ~body.json_ok THEN Raise("BadRequest", "400 Bad Request: Failed to decode JSON object")
  ELSE LET gj == _parse_geojson(PayloadOf(body))
       IN  IF ~gj.ok THEN gj
  ELSE LET feature == _extract_single_feature_geojson(gj.val)
       IN  IF ~feature.ok THEN feature
  ELSE LET bb == _geojson_feature_to_bbox_crs84(feature.val)
       IN  IF ~bb.ok THEN bb
  ELSE LET n == IntOfMax(body)
       IN  IF ~n.ok THEN n
  ELSE Ok([bbox |-> bb.val, max_n |-> Clamp(n.val)])

\* variant: except ValueError only; any other exception leaves the handler
ErrorResponseValueErrorOnly(e) ==
  IF e.exc = "ValueError" THEN [status |-> 400, body |-> [error |-> e.msg]]
  ELSE [status |-> 500, body |-> Str("Internal Server Error")]

\* except Exception as e: return jsonify({"error": str(e)}), 400
ErrorResponse(e) == [status |-> 400, body |-> [error |-> e.msg]]
\* return jsonify(out_fc)
OkResponse(out_fc) == [status |-> 200, body |-> out_fc]

(***************************************************************************)
(* Inputs of the pipeline model                                            *)
(***************************************************************************)
PolyA == Polygon(<<Pos2(0, 0), Pos2(20, 20)>>)
\* differs from PolyA below the sixth fractional digit
PolyA2 == Polygon(<<Pos2(4, 0), Pos2(20, 20)>>)
PolyB == Polygon(<<Pos2(0, 0), Pos2(13, 20)>>)
Poly3D == Polygon(<<Pos3(0, 0, 7), Pos3(20, 20, 7)>>)
PointGeom == Geometry("Point", Pos2(0, 0))

\* request bodies of the pipeline model
ValidBodies ==
  {Body(Absent, Absent, PolyA, Absent),
   Body(Absent, Absent, PolyA, Num(5000)),
   Body(Absent, Absent, PolyA2, Absent),
   Body(Absent, Absent, PolyB, Absent)}

InvalidBodies ==
  {BadBody,
   Body(None, Absent, EmptyDict, Absent),
   Body(Absent, Absent, FeatureCollection(<<>>), Absent),
   Body(Absent, Absent, FeatureCollection(<<Feature(PolyA), Feature(PolyB)>>), Absent),
   Body(Absent, Absent, Feature(PointGeom), Absent),
   Body(Absent, Absent, Poly3D, Absent),
   Body(Absent, Absent, PolyA, Str("abc"))}

Bodies == ValidBodies \cup InvalidBodies

WarnProps == Props([x \in {"HEADLINE", "SEVERITY"} |->
                      IF x = "HEADLINE" THEN Str("Sturm") ELSE Str("Minor")])
WarnFeature == UpFeature(Str("Feature"), PolyA, WarnProps)

\* what the upstream service may answer
Replies ==
  {[kind |-> f, feats |-> None] : f \in UpstreamFailures}
  \cup {[kind |-> "collection", feats |-> fs] :
          fs \in {Arr(<<WarnFeature, Num(7)>>), Num(5)}}

(***************************************************************************)
(* State                                                                   *)
(***************************************************************************)
VARIABLES
  clock,      \* time.time()
  cache,      \* _feature_cache
  pc,         \* per handler thread: where its request is
  body,       \* per thread: the request body being handled
  bbox,       \* per thread: local bbox of api_warnings
  max_n,      \* per thread: local max_n of api_warnings
  now,        \* per thread: local now of _fetch_dwd_warnings_geojson
  raw_fc,     \* per thread: the collection returned by the fetch
  resp,       \* per thread: the HTTP response
  fetches,    \* per thread: upstream requests issued for the current request
  lastStore,  \* history: key and data of a cache store made at the present time
  cleaning    \* per thread: the locals of a _feature_cache_cleanup in progress

vars == <<clock, cache, pc, body, bbox, max_n, now, raw_fc, resp, fetches, lastStore,
          cleaning>>

Threads == 1..NumWorkers

KeyOf(t) == _feature_cache_key(bbox[t], max_n[t])

Init ==
  /\ clock = 0
  /\ cache = <<>>
  /\ pc = [t \in Threads |-> "idle"]
  /\ body = [t \in Threads |-> None]
  /\ bbox = [t \in Threads |-> None]
  /\ max_n = [t \in Threads |-> None]
  /\ now = [t \in Threads |-> None]
  /\ raw_fc = [t \in Threads |-> None]
  /\ resp = [t \in Threads |-> None]
  /\ fetches = [t \in Threads |-> 0]
  /\ lastStore = None
  /\ cleaning = [t \in Threads |-> None]

\* time passes
Tick ==
  /\ clock < MaxClock
  /\ clock' = clock + 1
  /\ lastStore' = None
  /\ UNCHANGED <<cache, pc, body, bbox, max_n, now, raw_fc, resp, fetches, cleaning>>

\* api_warnings up to the call of _fetch_dwd_warnings_geojson
Begin(t, b) ==
  /\ pc[t] = "idle"
  /\ body' = [body EXCEPT ![t] = b]
  /\ fetches' = [fetches EXCEPT ![t] = 0]
  /\ LET r == Prepare(b)
     IN  IF r.ok
           THEN /\ bbox' = [bbox EXCEPT ![t] = r.val.bbox]
                /\ max_n' = [max_n EXCEPT ![t] = r.val.max_n]
                /\ pc' = [pc EXCEPT ![t] = "cleanup"]
                /\ UNCHANGED resp
           ELSE /\ resp' = [resp EXCEPT ![t] = ErrorResponse(r)]
                /\ pc' = [pc EXCEPT ![t] = "done"]
                /\ UNCHANGED <<bbox, max_n>>
  /\ UNCHANGED <<clock, cache, now, raw_fc, lastStore, cleaning>>

\* _fetch_dwd_warnings_geojson: _feature_cache_cleanup()
Cleanup(t) ==
  /\ pc[t] = "cleanup"
  /\ cache' = _feature_cache_cleanup(cache, clock)
  /\ pc' = [pc EXCEPT ![t] = "lookup"]
  /\ UNCHANGED <<clock, body, bbox, max_n, now, raw_fc, resp, fetches, lastStore, cleaning>>

\* key, now = _now_ts(), hit = _feature_cache.get(key) and the freshness test
Lookup(t) ==
  /\ pc[t] = "lookup"
  /\ now' = [now EXCEPT ![t] = clock]
  /\ IF IsHit(cache, KeyOf(t), clock)
       THEN /\ raw_fc' = [raw_fc EXCEPT ![t] = cache[CacheGet(cache, KeyOf(t))].data]
            /\ pc' = [pc EXCEPT ![t] = "build"]
       ELSE /\ pc' = [pc EXCEPT ![t] = "upstream"]
            /\ UNCHANGED raw_fc
  /\ UNCHANGED <<clock, cache, body, bbox, max_n, resp, fetches, lastStore, cleaning>>

\* variant: a failed upstream request is repeated once
UpstreamRetry(t, reply) ==
  /\ pc[t] = "upstream"
  /\ fetches' = [fetches EXCEPT ![t] = @ + 1]
  /\ LET js == FetchResult(reply, bbox[t], max_n[t])
     IN  IF js.ok
           THEN /\ raw_fc' = [raw_fc EXCEPT ![t] = js.val]
                /\ pc' = [pc EXCEPT ![t] = "store"]
                /\ UNCHANGED resp
           ELSE IF fetches[t] = 0
             THEN UNCHANGED <<pc, resp, raw_fc>>
           ELSE /\ resp' = [resp EXCEPT ![t] = ErrorResponse(js)]
                /\ pc' = [pc EXCEPT ![t] = "done"]
                /\ UNCHANGED raw_fc
  /\ UNCHANGED <<clock, cache, body, bbox, max_n, now, lastStore, cleaning>>

\* the upstream request and its reply
Upstream(t, reply) ==
  /\ pc[t] = "upstream"
  /\ fetches' = [fetches EXCEPT ![t] = @ + 1]
  /\ LET js == FetchResult(reply, bbox[t], max_n[t])
     IN  IF js.ok
           THEN /\ raw_fc' = [raw_fc EXCEPT ![t] = js.val]
                /\ pc' = [pc EXCEPT ![t] = "store"]
                /\ UNCHANGED resp
           ELSE /\ resp' = [resp EXCEPT ![t] = ErrorResponse(js)]
                /\ pc' = [pc EXCEPT ![t] = "done"]
                /\ UNCHANGED raw_fc
  /\ UNCHANGED <<clock, cache, body, bbox, max_n, now, lastStore, cleaning>>

\* _feature_cache[key] = CacheEntry(ts=now, data=js)
Store(t) ==
  /\ pc[t] = "store"
  /\ cache' = CachePut(cache, KeyOf(t), now[t], raw_fc[t])
  /\ lastStore' = [key |-> KeyOf(t), data |-> raw_fc[t]]
  /\ pc' = [pc EXCEPT ![t] = "build"]
  /\ UNCHANGED <<clock, body, bbox, max_n, now, raw_fc, resp, fetches, cleaning>>

\* out_fc = _build_featurecollection(raw_fc, bbox); return jsonify(out_fc)
Build(t) ==
  /\ pc[t] = "build"
  /\ LET out_fc == _build_featurecollection(raw_fc[t], bbox[t])
     IN  resp' = [resp EXCEPT ![t] = IF out_fc.ok THEN OkResponse(out_fc.val)
                                     ELSE ErrorResponse(out_fc)]
  /\ pc' = [pc EXCEPT ![t] = "done"]
  /\ UNCHANGED <<clock, cache, body, bbox, max_n, now, raw_fc, fetches, lastStore, cleaning>>

\* the response has been sent; the handler's locals are gone
Finish(t) ==
  /\ pc[t] = "done"
  /\ pc' = [pc EXCEPT ![t] = "idle"]
  /\ body' = [body EXCEPT ![t] = None]
  /\ bbox' = [bbox EXCEPT ![t] = None]
  /\ max_n' = [max_n EXCEPT ![t] = None]
  /\ now' = [now EXCEPT ![t] = None]
  /\ raw_fc' = [raw_fc EXCEPT ![t] = None]
  /\ resp' = [resp EXCEPT ![t] = None]
  /\ fetches' = [fetches EXCEPT ![t] = 0]
  /\ UNCHANGED <<clock, cache, lastStore, cleaning>>

\* one request at a time: a worker takes a request when no other is in progress
AllIdle == \A t \in Threads : pc[t] = "idle"

Next ==
  \/ Tick
  \/ \E t \in Threads : \E b \in Bodies : AllIdle /\ Begin(t, b)
  \/ \E t \in Threads : Cleanup(t)
  \/ \E t \in Threads : Lookup(t)
  \/ \E t \in Threads : \E reply \in Replies : Upstream(t, reply)
  \/ \E t \in Threads : Store(t)
  \/ \E t \in Threads : Build(t)
  \/ \E t \in Threads : Finish(t)

Spec == Init /\ [][Next]_vars

(***************************************************************************)
(* SpecBBox: the steps before the cache (parse, extract, bbox, max) on a   *)
(* wide set of AOI bodies.                                                 *)
(***************************************************************************)
Coords == {-4, 13, 20}
Positions == {Pos2(x, y) : x \in Coords, y \in Coords}
               \cup {Pos3(x, y, 7) : x \in Coords, y \in Coords}
Rings == UNION {[1..n -> Positions] : n \in 1..MaxRing}
AoiGeometries ==
  {Polygon(r) : r \in Rings}
  \cup {MultiPolygon(<<p>>, <<q>>) : p \in Positions, q \in Positions}
  \cup {Polygon(<<>>), PointGeom, Geometry("LineString", Arr(<<Pos2(-4, 13), Pos2(20, 20)>>))}
AoiBodies ==
  {Body(Absent, Absent, g, Absent) : g \in AoiGeometries}
  \cup {Body(Feature(g), Absent, EmptyDict, Absent) : g \in AoiGeometries}
  \cup {Body(Absent, FeatureCollection(<<Feature(g)>>), EmptyDict, Absent) : g \in AoiGeometries}
  \cup {Body(Absent, Absent, EmptyDict, Absent),
        Body(Str(" "), Absent, EmptyDict, Absent),
        Body(Str("{bad"), Absent, EmptyDict, Absent),
        Body(Str("[1, 2]"), Absent, EmptyDict, Absent),
        Body(Str("polygon-A"), Absent, EmptyDict, Num(0)),
        Body(Num(3), Absent, EmptyDict, Absent),
        Body(Absent, Absent, FeatureCollection(<<Num(1)>>), Absent),
        Body(Absent, Absent, Feature(None), Absent),
        Body(Absent, Absent, PolyA, None)}
  \cup InvalidBodies

NextBBox ==
  \/ \E t \in Threads : \E b \in AoiBodies : AllIdle /\ Begin(t, b)
  \/ \E t \in Threads : Finish(t)

SpecBBox == Init /\ [][NextBBox]_vars

(***************************************************************************)
(* SpecBuild: the whole pipeline for one fixed AOI at one instant, with    *)
(* the upstream service answering any feature list of up to MaxFeats       *)
(* entries.                                                                *)
(***************************************************************************)
RainProps ==
  Props([x \in {"headline", "ONSET", "EXPIRES", "NAME", "ID"} |->
           CASE x = "headline" -> Str("Regen")
             [] x = "ONSET" -> Str("2024-05-01T10:00:00Z")
             [] x = "EXPIRES" -> Str("morgen")
             [] x = "NAME" -> Str("Kassel")
             [] OTHER -> Num(0)])
UpstreamEntries ==
  {WarnFeature,
   UpFeature(Str("Feature"), PolyB, RainProps),
   UpFeature(Str("Feature"), None, None),
   UpFeature(Str("Feature"), PolyA, Arr(<<Num(1)>>)),
   UpFeature(Str("Other"), PolyA, WarnProps),
   Num(7)}
FeatureLists == UNION {[1..n -> UpstreamEntries] : n \in 0..MaxFeats}
BuildReplies ==
  {[kind |-> "collection", feats |-> fs] :
     fs \in {Arr(l) : l \in FeatureLists} \cup {None, Num(5)}}

NextBuild ==
  \/ \E t \in Threads : AllIdle /\ Begin(t, Body(Absent, Absent, PolyA, Absent))
  \/ \E t \in Threads : Cleanup(t)
  \/ \E t \in Threads : Lookup(t)
  \/ \E t \in Threads : \E reply \in BuildReplies : Upstream(t, reply)
  \/ \E t \in Threads : Store(t)
  \/ \E t \in Threads : Build(t)
  \/ \E t \in Threads : Finish(t)

SpecBuild == Init /\ [][NextBuild]_vars

(***************************************************************************)
(* Properties                                                              *)
(***************************************************************************)
LookupHits(t) == pc[t] = "lookup" /\ pc'[t] = "build"
LookupMisses(t) == pc[t] = "lookup" /\ pc'[t] = "upstream"
Stores(t) == pc[t] = "store" /\ pc'[t] = "build"
EntryOf(c, key) == c[CacheGet(c, key)]

\* C1: a cache hit returns the data of an entry that is, at the moment of the
\* lookup, no older than CACHE_TTL_SECONDS
C1_HitIsFresh ==
  [][\A t \in Threads :
       LookupHits(t) =>
         /\ CacheGet(cache, KeyOf(t)) # 0
         /\ raw_fc'[t] = EntryOf(cache, KeyOf(t)).data
         /\ clock - EntryOf(cache, KeyOf(t)).ts <= CACHE_TTL_SECONDS]_vars

\* a request was served from an entry whose age is exactly the TTL
C1_Witness ==
  \E t \in Threads :
    /\ pc[t] = "build" /\ fetches[t] = 0
    /\ CacheGet(cache, KeyOf(t)) # 0
    /\ now[t] - EntryOf(cache, KeyOf(t)).ts = CACHE_TTL_SECONDS

\* C2 (as claimed): in every reachable state the cache holds at most
\* MAX_CACHE_ITEMS entries
C2_CacheNeverExceedsMax == Len(cache) <= MAX_CACHE_ITEMS

\* C3 (as claimed): storing a new key into a cache that already holds
\* MAX_CACHE_ITEMS entries of one TTL window leaves exactly MAX_CACHE_ITEMS
\* entries, the new one among them; and when cleanup evicts for capacity, every
\* retained entry is at least as recent as every evicted one and the evicted
\* keys are gone
WithinWindow(c, t) == \A i \in 1..Len(c) : now[t] - c[i].ts <= CACHE_TTL_SECONDS
C3_CapacityKeepsNewest ==
  [][\A t \in Threads :
       /\ (Stores(t) /\ KeyOf(t) \notin CacheKeys(cache) /\ Len(cache) = MAX_CACHE_ITEMS
             /\ WithinWindow(cache, t))
            => (Len(cache') = MAX_CACHE_ITEMS /\ KeyOf(t) \in CacheKeys(cache'))
       /\ (pc[t] = "cleanup" /\ pc'[t] = "lookup" /\ Len(DropDead(cache, clock)) > MAX_CACHE_ITEMS)
            => /\ Len(cache') = MAX_CACHE_ITEMS
               /\ \A i \in 1..Len(cache') : \A j \in 1..Len(cache) :
                    cache[j].key \notin CacheKeys(cache') /\ ~IsDead(cache[j], clock)
                      => cache'[i].ts >= cache[j].ts]_vars

\* C4 (as claimed): a request with the key of a store made at the present time
\* is a hit returning the stored collection; and a request whose entry is older
\* than the TTL is a miss
C4_RoundTrip ==
  [][\A t \in Threads :
       /\ (pc[t] = "lookup" /\ pc'[t] # "lookup" /\ lastStore # None
             /\ lastStore.key = KeyOf(t))
            => (LookupHits(t) /\ raw_fc'[t] = lastStore.data /\ fetches'[t] = 0)
       /\ (pc[t] = "lookup" /\ pc'[t] # "lookup" /\ CacheGet(cache, KeyOf(t)) # 0
             /\ clock - EntryOf(cache, KeyOf(t)).ts > CACHE_TTL_SECONDS)
            => LookupMisses(t)]_vars

\* C5: a cache hit serves a collection that was fetched for the same layer, the
\* same bbox as formatted with six fractional digits, and the same feature count
SameRounded(b1, b2) == \A i \in 1..4 : Fmt6(b1[i]) = Fmt6(b2[i])
C5_HitIsExactMatch ==
  [][\A t \in Threads :
       LookupHits(t) =>
         /\ EntryOf(cache, KeyOf(t)).key[1] = DWD_TYPENAME
         /\ SameRounded(raw_fc'[t].query[1], bbox[t])
         /\ raw_fc'[t].query[2] = max_n[t]]_vars

\* a hit served a collection fetched for another bbox with the same rounding
C5_Witness ==
  \E t \in Threads :
    /\ pc[t] = "build" /\ fetches[t] = 0
    /\ raw_fc[t].query[1] # bbox[t]

\* C6: a failed upstream call ends the request with an upstream error and leaves
\* the cache as it was; an entry appears in the cache only by the store of a
\* request that missed and fetched successfully
UpstreamMessages == {UpstreamError(f).msg : f \in UpstreamFailures}
NewEntries == {cache'[i] : i \in 1..Len(cache')} \ {cache[i] : i \in 1..Len(cache)}
C6_NoEntryOnFailure ==
  [][/\ \A t \in Threads : \A reply \in Replies :
          (reply.kind \in UpstreamFailures /\ Upstream(t, reply))
            => /\ cache' = cache
               /\ pc'[t] = "done"
               /\ resp'[t] = [status |-> 400, body |-> [error |-> UpstreamError(reply.kind).msg]]
     /\ \A e \in NewEntries :
          \E t \in Threads :
            /\ Stores(t) /\ fetches[t] = 1
            /\ ~IsHit(cache, KeyOf(t), now[t])
            /\ e = [key |-> KeyOf(t), ts |-> now[t], data |-> raw_fc[t]]]_vars

\* a request ended with an upstream error while the cache holds an entry
C6_Witness ==
  \E t \in Threads :
    /\ pc[t] = "done" /\ fetches[t] = 1
    /\ resp[t].status = 400 /\ resp[t].body.error \in UpstreamMessages
    /\ Len(cache) > 0

\* C7: in a successful response meta.count and the length of meta.summary equal
\* the number of output features, which are the Feature entries of the upstream
\* list in order, and the i-th summary record is taken from the i-th feature
RECURSIVE CountFeatures(_, _)
CountFeatures(feats, i) ==
  IF i > Len(feats) THEN 0
  ELSE (IF IsFeature(feats[i]) THEN 1 ELSE 0) + CountFeatures(feats, i + 1)
UpstreamList(fc) == IF fc.features.k = "arr" THEN fc.features.items ELSE <<>>
C7_CountAndSummary ==
  \A t \in Threads :
    (pc[t] = "done" /\ resp[t].status = 200) =>
      LET b == resp[t].body
          f == b.features
          sm == b.meta.summary
      IN  /\ b.meta.count = Len(f)
          /\ Len(sm) = Len(f)
          /\ Len(f) = CountFeatures(UpstreamList(raw_fc[t]), 1)
          /\ \A i \in 1..Len(f) : i <= Len(sm) =>
               /\ sm[i].kurztext = f[i].properties["kurztext"]
               /\ sm[i].severity = f[i].properties["severity"]
               /\ sm[i].gebiet = f[i].properties["gebiet"]
               /\ sm[i].gueltig_ab_local \in
                    {f[i].properties["gueltig_ab_local"], f[i].properties["gueltig_ab"]}
               /\ sm[i].gueltig_bis_local \in
                    {f[i].properties["gueltig_bis_local"], f[i].properties["gueltig_bis"]}

\* a successful response built from a list of which an entry was skipped
C7_Witness ==
  \E t \in Threads :
    /\ pc[t] = "done" /\ resp[t].status = 200
    /\ Len(UpstreamList(raw_fc[t])) = 2
    /\ Len(resp[t].body.features) = 1

\* C8: every request ends with exactly one response, which is 200 with the
\* envelope or 400 with a JSON object holding only "error"; a request that fails
\* at any stage ends with the latter
C8_ErrorsBecome400 ==
  \A t \in Threads :
    pc[t] = "done" =>
      /\ resp[t] # None
      /\ \/ /\ resp[t].status = 200
            /\ resp[t].body.type = "FeatureCollection"
            /\ Prepare(body[t]).ok
            /\ _build_featurecollection(raw_fc[t], bbox[t]).ok
         \/ /\ resp[t].status = 400
            /\ DOMAIN resp[t].body = {"error"}
            /\ \/ ~Prepare(body[t]).ok
               \/ fetches[t] = 1 /\ raw_fc[t] = None
               \/ ~_build_featurecollection(raw_fc[t], bbox[t]).ok

\* a request that failed while the response was assembled
C8_Witness ==
  \E t \in Threads :
    /\ pc[t] = "done" /\ resp[t].status = 400
    /\ raw_fc[t] # None /\ raw_fc[t].features = Num(5)

\* C9: a request whose AOI is a FeatureCollection with 0 or 2 or more features
\* ends with the single-feature error, without a bbox, a cache access or an
\* upstream request
IsMultiCollection(b) ==
  /\ b # None /\ b.json_ok
  /\ PayloadOf(b).k = "dict"
  /\ Get(PayloadOf(b), "type") = Str("FeatureCollection")
  /\ Get(PayloadOf(b), "features").k = "arr"
  /\ Len(Get(PayloadOf(b), "features").items) # 1
C9_SingleFeatureRequired ==
  \A t \in Threads :
    IsMultiCollection(body[t]) =>
      /\ pc[t] = "done"
      /\ resp[t] = [status |-> 400, body |-> [error |-> MSG_SINGLE_FEATURE]]
      /\ bbox[t] = None /\ now[t] = None /\ raw_fc[t] = None
      /\ fetches[t] = 0

\* a collection of two features was rejected while the cache holds entries
C9_Witness ==
  \E t \in Threads :
    /\ IsMultiCollection(body[t])
    /\ Len(Get(PayloadOf(body[t]), "features").items) = 2
    /\ pc[t] = "done" /\ Len(cache) > 0

\* C10 (as claimed): for every AOI that is a Feature, a one-Feature collection,
\* a Polygon or a MultiPolygon with at least one position, the bbox is computed
\* and is the minimum and maximum of the x and y of all positions
AoiGeometryOf(b) ==
  LET p == IF b.json_ok THEN PayloadOf(b) ELSE None
      g == CASE p.k # "dict" -> None
             [] Get(p, "type") \in {Str("Polygon"), Str("MultiPolygon")} -> p
             [] Get(p, "type") = Str("Feature") -> Get(p, "geometry")
             [] Get(p, "type") = Str("FeatureCollection")
                  /\ Get(p, "features").k = "arr"
                  /\ Len(Get(p, "features").items) = 1
                  /\ Get(p, "features").items[1].k = "dict" ->
                    Get(Get(p, "features").items[1], "geometry")
             [] OTHER -> None
  IN  IF g.k = "dict" /\ Get(g, "type") \in {Str("Polygon"), Str("MultiPolygon")}
        THEN g ELSE None
\* a position is a list of two or more numbers; its first two are x and y
RECURSIVE PositionsOf(_)
RECURSIVE PositionsOfItems(_, _)
PositionsOf(v) ==
  IF v.k # "arr" THEN {}
  ELSE IF Len(v.items) >= 2 /\ \A i \in 1..Len(v.items) : v.items[i].k = "num"
    THEN {<<v.items[1].v, v.items[2].v>>}
  ELSE PositionsOfItems(v.items, 1)
PositionsOfItems(items, i) ==
  IF i > Len(items) THEN {} ELSE PositionsOf(items[i]) \cup PositionsOfItems(items, i + 1)
SetMin(S) == CHOOSE m \in S : \A x \in S : m <= x
SetMax(S) == CHOOSE m \in S : \A x \in S : m >= x
C10_BBoxIsMinMax ==
  \A t \in Threads :
    (body[t] # None /\ body[t].max = Absent /\ AoiGeometryOf(body[t]) # None
       /\ PositionsOf(Get(AoiGeometryOf(body[t]), "coordinates")) # {}) =>
      LET ps == PositionsOf(Get(AoiGeometryOf(body[t]), "coordinates"))
          xs == {q[1] : q \in ps}
          ys == {q[2] : q \in ps}
      IN  /\ pc[t] = "cleanup"
          /\ bbox[t] = <<SetMin(xs), SetMin(ys), SetMax(xs), SetMax(ys)>>


(***************************************************************************)
(* SpecMax: the whole pipeline for one AOI at one instant, with the        *)
(* request's max ranging over values below, inside and above [1, 2000].    *)
(***************************************************************************)
MaxValues == {-3, 0, 1, 2, 1999, 2000, 2001, 5000}
MaxBodies ==
  {Body(Absent, Absent, PolyA, m) : m \in {Absent, Str("abc")} \cup {Num(v) : v \in MaxValues}}
MaxReplies ==
  {[kind |-> "http_status", feats |-> None],
   [kind |-> "collection", feats |-> Arr(<<WarnFeature>>)]}

NextMax ==
  \/ \E t \in Threads : \E b \in MaxBodies : AllIdle /\ Begin(t, b)
  \/ \E t \in Threads : Cleanup(t)
  \/ \E t \in Threads : Lookup(t)
  \/ \E t \in Threads : \E reply \in MaxReplies : Upstream(t, reply)
  \/ \E t \in Threads : Store(t)
  \/ \E t \in Threads : Build(t)
  \/ \E t \in Threads : Finish(t)

SpecMax == Init /\ [][NextMax]_vars

\* C11: a request that reaches the cache carries a feature count in [1, 2000]
\* that is the supplied max limited to that range (the default when max is
\* absent); the same value is in the cache key and in the upstream query
ExpectedCap(m) ==
  LET n == IF m = Absent THEN MAX_FEATURES ELSE m.v
  IN  IF n > 2000 THEN 2000 ELSE IF n < 1 THEN 1 ELSE n
C11_MaxIsClamped ==
  \A t \in Threads :
    pc[t] \in {"cleanup", "lookup", "upstream", "store", "build"} =>
      /\ body[t].max = Absent \/ body[t].max.k = "num"
      /\ max_n[t] = ExpectedCap(body[t].max)
      /\ max_n[t] \in 1..2000
      /\ KeyOf(t)[6] = ExpectedCap(body[t].max)
      /\ (fetches[t] = 1 /\ raw_fc[t] # None) => raw_fc[t].query[2] = ExpectedCap(body[t].max)
      /\ pc[t] = "build" =>
           \E i \in 1..Len(cache) : cache[i].key[6] = ExpectedCap(body[t].max)

\* a request with max 5000 fetched with count 2000
C11_Witness ==
  \E t \in Threads :
    /\ pc[t] = "store" /\ body[t].max = Num(5000)
    /\ raw_fc[t].query[2] = 2000


(***************************************************************************)
(* SpecNorm: the whole pipeline for one AOI at one instant; the upstream   *)
(* service answers one Feature whose property mapping gives values to up   *)
(* to MaxProps candidate keys of one field, and the request body may carry *)
(* a "raw" key, which api_warnings never reads.                            *)
(***************************************************************************)
MaxProps == 2
Bool(b) == [k |-> "bool", b |-> b]
NormKeySets ==
  {{"HEADLINE", "headline", "EVENT"}, {"EXPIRES", "expires", "GUELTIG_BIS"},
   {"ONSET", "onset", "EFFECTIVE"}, {"SEVERITY", "severity", "LEVEL"},
   {"AREADESC", "areadesc", "NAME"}}
NormValues == {None, Str(""), Str("x"), Num(0)}
NormProps ==
  UNION {[ks -> NormValues] :
           ks \in UNION {{S \in SUBSET K : Cardinality(S) <= MaxProps} : K \in NormKeySets}}
NormReplies ==
  {[kind |-> "collection", feats |-> Arr(<<UpFeature(Str("Feature"), PolyA, Props(m))>>)] :
     m \in NormProps}
BodyWithRaw(b, raw) == Merge(b, Field("raw", raw))
NormBodies ==
  {BodyWithRaw(Body(Absent, Absent, PolyA, Absent), raw) :
     raw \in {Absent, Bool(TRUE), Bool(FALSE)}}

NextNorm ==
  \/ \E t \in Threads : \E b \in NormBodies : AllIdle /\ Begin(t, b)
  \/ \E t \in Threads : Cleanup(t)
  \/ \E t \in Threads : Lookup(t)
  \/ \E t \in Threads : \E reply \in NormReplies : Upstream(t, reply)
  \/ \E t \in Threads : Store(t)
  \/ \E t \in Threads : Build(t)
  \/ \E t \in Threads : Finish(t)

SpecNorm == Init /\ [][NextNorm]_vars

\* the value under the first key of keys that m has with a value other than
\* null and the empty string; null when there is no such key
FirstQualifying(m, keys) ==
  LET idx == {i \in 1..Len(keys) :
                keys[i] \in DOMAIN m /\ m[keys[i]] \notin {None, Str("")}}
  IN  IF idx = {} THEN None
      ELSE m[keys[CHOOSE i \in idx : \A j \in idx : i <= j]]

\* C12: in every output feature each of headline, validity end, validity
\* start, severity and area is the value of the first candidate key that is
\* present with a value neither null nor "", and null when there is none
C12_FirstNonEmptyWins ==
  \A t \in Threads :
    (pc[t] = "done" /\ resp[t].status = 200) =>
      \A i \in 1..Len(resp[t].body.features) :
        LET m == PropsRaw(raw_fc[t].features.items[i]).m
            p == resp[t].body.features[i].properties
        IN  /\ p["kurztext"] = FirstQualifying(m, HEADLINE_KEYS)
            /\ p["gueltig_bis"] = FirstQualifying(m, EXPIRES_KEYS)
            /\ p["gueltig_ab"] = FirstQualifying(m, ONSET_KEYS)
            /\ p["severity"] = FirstQualifying(m, SEVERITY_KEYS)
            /\ p["gebiet"] = FirstQualifying(m, AREA_KEYS)

\* an empty HEADLINE falls through to headline
C12_Witness ==
  \E t \in Threads :
    /\ pc[t] = "done" /\ resp[t].status = 200
    /\ Len(resp[t].body.features) = 1
    /\ LET m == PropsRaw(raw_fc[t].features.items[1]).m
       IN  /\ DOMAIN m = {"HEADLINE", "headline"}
           /\ m["HEADLINE"] = Str("") /\ m["headline"] = Str("x")
    /\ resp[t].body.features[1].properties["kurztext"] = Str("x")

\* C13 (as stated): the raw property mapping is in an output feature's
\* properties exactly when the request sets raw to true
C13_RawIsOptIn ==
  \A t \in Threads :
    (pc[t] = "done" /\ resp[t].status = 200) =>
      \A i \in 1..Len(resp[t].body.features) :
        "properties_raw" \in DOMAIN resp[t].body.features[i].properties
          <=> body[t].raw = Bool(TRUE)

\* C13 (amended): every output feature carries the feature's raw property
\* mapping under properties_raw, whatever the request says about raw
C13_RawAlwaysIncluded ==
  \A t \in Threads :
    (pc[t] = "done" /\ resp[t].status = 200) =>
      \A i \in 1..Len(resp[t].body.features) :
        LET p == resp[t].body.features[i].properties
        IN  /\ "properties_raw" \in DOMAIN p
            /\ p["properties_raw"] = PropsRaw(raw_fc[t].features.items[i])

\* a request with raw false answered with a feature that carries a
\* non-empty raw mapping
C13_Witness ==
  \E t \in Threads :
    /\ pc[t] = "done" /\ resp[t].status = 200
    /\ body[t].raw = Bool(FALSE)
    /\ Len(resp[t].body.features) = 1
    /\ resp[t].body.features[1].properties["properties_raw"].m # <<>>


\* C15: the entry a request stores is stamped with the time of the store, so
\* that its age at insertion is zero whatever the duration of the fetch
C15_TimestampIsInsertionTime ==
  [][\A t \in Threads :
       Stores(t) =>
         /\ CacheGet(cache', KeyOf(t)) # 0
         /\ EntryOf(cache', KeyOf(t)).ts = clock]_vars

\* the coordinates with every position cut to its first two components
RECURSIVE Without3rd(_)
Without3rd(v) ==
  IF v.k # "arr" THEN v
  ELSE IF Len(v.items) >= 2 /\ \A i \in 1..Len(v.items) : v.items[i].k = "num"
    THEN Arr(SubSeq(v.items, 1, 2))
  ELSE Arr([i \in 1..Len(v.items) |-> Without3rd(v.items[i])])

\* C16: an AOI whose positions carry a third component is accepted with the
\* bounding box of the same AOI with [x, y] positions
C16_ElevationIgnored ==
  \A t \in Threads :
    (body[t] # None /\ body[t].max = Absent /\ AoiGeometryOf(body[t]) # None) =>
      LET g == AoiGeometryOf(body[t])
          flat == Geometry(Get(g, "type").s, Without3rd(Get(g, "coordinates")))
          r == _geojson_feature_to_bbox_crs84(Feature(flat))
      IN  r.ok => (pc[t] = "cleanup" /\ bbox[t] = r.val)


\* the order of the stages of one request: extraction and bounding box (a
\* failure ends the request), cache cleanup and lookup, the upstream request
\* on a miss, the store, the build of the response
StageOrder ==
  {<<"idle", "cleanup">>, <<"idle", "done">>, <<"cleanup", "lookup">>,
   <<"lookup", "build">>, <<"lookup", "upstream">>, <<"upstream", "store">>,
   <<"upstream", "done">>, <<"store", "build">>, <<"build", "done">>,
   <<"done", "idle">>}

\* C17: a request passes its stages in order; it makes an upstream request
\* only after a cache miss and at most once, none after a hit, and a failed
\* upstream request ends it; the cache changes only in cleanup and store
C17_StagesInOrder ==
  [][/\ \A t \in Threads :
          /\ pc'[t] # pc[t] => <<pc[t], pc'[t]>> \in StageOrder
          /\ fetches'[t] <= 1
          /\ fetches'[t] > fetches[t] =>
               /\ pc[t] = "upstream" /\ pc'[t] \in {"store", "done"}
               /\ ~IsHit(cache, KeyOf(t), now[t])
          /\ LookupHits(t) => (fetches[t] = 0 /\ fetches'[t] = 0)
          /\ (pc[t] = "build" /\ pc'[t] = "done") => fetches'[t] = fetches[t]
          /\ (pc[t] = "upstream" /\ pc'[t] = "done") =>
               (resp'[t].status = 400 /\ fetches'[t] = 1 /\ cache' = cache)
          /\ (pc[t] = "idle" /\ pc'[t] = "done") =>
               (resp'[t].status = 400 /\ fetches'[t] = 0 /\ cache' = cache)
     /\ cache' # cache =>
          \E t \in Threads : pc[t] \in {"cleanup", "store"} /\ pc'[t] # pc[t]]_vars

\* a request answered from the cache without an upstream request
C17_Witness ==
  \E t \in Threads :
    /\ pc[t] = "done" /\ resp[t].status = 200
    /\ fetches[t] = 0 /\ raw_fc[t] # None
    /\ CacheGet(cache, KeyOf(t)) # 0


(***************************************************************************)
(* SpecConc: two handler threads of the threaded server share              *)
(* _feature_cache without a lock.  Each dict operation is atomic under the *)
(* interpreter lock, so _feature_cache_cleanup is a sequence of steps      *)
(* between which the other thread may run: the scan of the items for dead  *)
(* keys (RuntimeError when the dict changed size during it, swallowed by   *)
(* the except clause), one pop per dead key, sorted(), clear(), update().  *)
(* A scan that is not interrupted by a size change reads the items as they *)
(* are when it ends.  The threads run at one instant, late enough for the  *)
(* entry that an earlier request left in the cache to be dead.             *)
(***************************************************************************)
ConcThreads == {1, 2}
ConcBodies ==
  {Body(Absent, Absent, PolyA, Absent), Body(Absent, Absent, PolyA, Num(5000)),
   Body(Absent, Absent, PolyB, Absent)}
ConcReplies ==
  {[kind |-> "collection", feats |-> Arr(<<WarnFeature>>)],
   [kind |-> "collection", feats |-> Arr(<<>>)]}

\* the upstream answer varies for one of the AOIs only
ConcRepliesFor(t) ==
  IF body[t] = Body(Absent, Absent, PolyA, Absent) THEN ConcReplies
  ELSE {[kind |-> "collection", feats |-> Arr(<<WarnFeature>>)]}

\* what a request for PolyB served at time 0 has stored
OldEntry ==
  LET r == Prepare(Body(Absent, Absent, PolyB, Absent)).val
  IN  [key |-> _feature_cache_key(r.bbox, r.max_n), ts |-> 0,
       data |-> FetchResult([kind |-> "collection", feats |-> Arr(<<>>)],
                            r.bbox, r.max_n).val]

InitConc ==
  /\ clock = CACHE_TTL_SECONDS + 1
  /\ cache = <<OldEntry>>
  /\ pc = [t \in ConcThreads |-> "idle"]
  /\ body = [t \in ConcThreads |-> None]
  /\ bbox = [t \in ConcThreads |-> None]
  /\ max_n = [t \in ConcThreads |-> None]
  /\ now = [t \in ConcThreads |-> None]
  /\ raw_fc = [t \in ConcThreads |-> None]
  /\ resp = [t \in ConcThreads |-> None]
  /\ fetches = [t \in ConcThreads |-> 0]
  /\ lastStore = None
  /\ cleaning = [t \in ConcThreads |-> None]

\* now = _now_ts(); the iteration over _feature_cache.items() begins
CleanupScanBegin(t) ==
  /\ pc[t] = "cleanup"
  /\ cleaning' = [cleaning EXCEPT ![t] =
                    [now |-> clock, used |-> Len(cache), dead |-> <<>>, keep |-> <<>>]]
  /\ pc' = [pc EXCEPT ![t] = "scan"]
  /\ UNCHANGED <<clock, cache, body, bbox, max_n, now, raw_fc, resp, fetches, lastStore>>

\* keys of the dead items, in dict order
DeadKeys(c, now_) ==
  LET d == SelectSeq(c, LAMBDA e : IsDead(e, now_))
  IN  [i \in 1..Len(d) |-> d[i].key]

\* the iteration ends: dead is built, or the iterator found the dict's size
\* changed and raised RuntimeError, which ends the cleanup (except: pass)
CleanupScanEnd(t) ==
  /\ pc[t] = "scan"
  /\ IF Len(cache) # cleaning[t].used
       THEN /\ cleaning' = [cleaning EXCEPT ![t] = None]
            /\ pc' = [pc EXCEPT ![t] = "lookup"]
       ELSE /\ cleaning' = [cleaning EXCEPT ![t].dead = DeadKeys(cache, cleaning[t].now)]
            /\ pc' = [pc EXCEPT ![t] = IF DeadKeys(cache, cleaning[t].now) = <<>>
                                         THEN "cap" ELSE "pop"]
  /\ UNCHANGED <<clock, cache, body, bbox, max_n, now, raw_fc, resp, fetches, lastStore>>

\* _feature_cache.pop(k, None) for the next k of dead
CleanupPop(t) ==
  /\ pc[t] = "pop"
  /\ cache' = SelectSeq(cache, LAMBDA e : e.key # Head(cleaning[t].dead))
  /\ cleaning' = [cleaning EXCEPT ![t].dead = Tail(@)]
  /\ pc' = [pc EXCEPT ![t] = IF Tail(cleaning[t].dead) = <<>> THEN "cap" ELSE "pop"]
  /\ UNCHANGED <<clock, body, bbox, max_n, now, raw_fc, resp, fetches, lastStore>>

\* if len(_feature_cache) > MAX_CACHE_ITEMS: items = sorted(...); keep = dict(items[:MAX])
CleanupCap(t) ==
  /\ pc[t] = "cap"
  /\ IF Len(cache) > MAX_CACHE_ITEMS
       THEN /\ cleaning' = [cleaning EXCEPT ![t].keep = KeepNewest(cache)]
            /\ pc' = [pc EXCEPT ![t] = "clear"]
       ELSE /\ cleaning' = [cleaning EXCEPT ![t] = None]
            /\ pc' = [pc EXCEPT ![t] = "lookup"]
  /\ UNCHANGED <<clock, cache, body, bbox, max_n, now, raw_fc, resp, fetches, lastStore>>

\* _feature_cache.clear()
CleanupClear(t) ==
  /\ pc[t] = "clear"
  /\ cache' = <<>>
  /\ pc' = [pc EXCEPT ![t] = "update"]
  /\ UNCHANGED <<clock, body, bbox, max_n, now, raw_fc, resp, fetches, lastStore, cleaning>>

\* d.update(keep): every item of keep is assigned in order
RECURSIVE DictUpdate(_, _, _)
DictUpdate(c, keep, i) ==
  IF i > Len(keep) THEN c
  ELSE DictUpdate(CachePut(c, keep[i].key, keep[i].ts, keep[i].data), keep, i + 1)

\* _feature_cache.update(keep)
CleanupUpdate(t) ==
  /\ pc[t] = "update"
  /\ cache' = DictUpdate(cache, cleaning[t].keep, 1)
  /\ cleaning' = [cleaning EXCEPT ![t] = None]
  /\ pc' = [pc EXCEPT ![t] = "lookup"]
  /\ UNCHANGED <<clock, body, bbox, max_n, now, raw_fc, resp, fetches, lastStore>>

NextConc ==
  \/ \E t \in ConcThreads : \E b \in ConcBodies : Begin(t, b)
  \/ \E t \in ConcThreads : CleanupScanBegin(t)
  \/ \E t \in ConcThreads : CleanupScanEnd(t)
  \/ \E t \in ConcThreads : CleanupPop(t)
  \/ \E t \in ConcThreads : CleanupCap(t)
  \/ \E t \in ConcThreads : CleanupClear(t)
  \/ \E t \in ConcThreads : CleanupUpdate(t)
  \/ \E t \in ConcThreads : Lookup(t)
  \/ \E t \in ConcThreads : \E reply \in ConcRepliesFor(t) : Upstream(t, reply)
  \/ \E t \in ConcThreads : Store(t)
  \/ \E t \in ConcThreads : Build(t)
  \/ \E t \in ConcThreads : Finish(t)

SpecConc == InitConc /\ [][NextConc]_vars


\* thread u has cleared the cache and not yet put back the entries it keeps
MidEviction(u) ==
  /\ pc[u] = "update"
  /\ \E i \in 1..Len(cleaning[u].keep) : cleaning[u].keep[i].key \notin CacheKeys(cache)

\* C14: a lookup, store or cleanup step of one request never runs on a cache
\* that another request's cleanup has cleared and not yet refilled, and no
\* cleanup is ended early by a change that another request made to the map
C14_NoPartialEviction ==
  [][\A t \in ConcThreads :
       /\ (pc'[t] # pc[t] /\ pc[t] \in {"scan", "pop", "cap", "clear", "update",
                                        "lookup", "store"}) =>
            \A u \in ConcThreads \ {t} : ~MidEviction(u)
       /\ ~(pc[t] = "scan" /\ pc'[t] = "lookup")]_vars

\* C18: a store puts the storing request's data under its key, as the only
\* entry of that key, and leaves every entry under another key as it was;
\* so when two requests with the same key that both missed have both stored,
\* the cache holds one entry for the key, with the data of the later store
C18_LastWriteWins ==
  [][/\ \A t \in ConcThreads :
          Stores(t) =>
            /\ Cardinality({i \in 1..Len(cache') : cache'[i].key = KeyOf(t)}) = 1
            /\ EntryOf(cache', KeyOf(t)).data = raw_fc[t]
            /\ \A i \in 1..Len(cache) :
                 cache[i].key # KeyOf(t) =>
                   \E j \in 1..Len(cache') : cache'[j] = cache[i]
            /\ \A j \in 1..Len(cache') :
                 cache'[j].key # KeyOf(t) =>
                   \E i \in 1..Len(cache) : cache[i] = cache'[j]
     /\ \A t \in ConcThreads, u \in ConcThreads :
          (/\ t # u
           /\ pc'[t] \in {"build", "done"} /\ fetches'[t] = 1
           /\ pc'[u] \in {"build", "done"} /\ fetches'[u] = 1
           /\ _feature_cache_key(bbox'[t], max_n'[t]) = _feature_cache_key(bbox'[u], max_n'[u])) =>
            LET key == _feature_cache_key(bbox'[t], max_n'[t])
            IN  /\ Cardinality({i \in 1..Len(cache') : cache'[i].key = key}) = 1
                /\ EntryOf(cache', key).data \in {raw_fc'[t], raw_fc'[u]}
                /\ lastStore' = [key |-> key, data |-> EntryOf(cache', key).data]]_vars

\* both requests missed, fetched different data for the same key and have
\* stored; the cache holds the data of one of them, another key's entry is there
C18_Witness ==
  /\ \A t \in ConcThreads : pc[t] \in {"build", "done"} /\ fetches[t] = 1
  /\ KeyOf(1) = KeyOf(2)
  /\ raw_fc[1] # raw_fc[2]
  /\ lastStore = [key |-> KeyOf(2), data |-> raw_fc[2]]
  /\ Cardinality({i \in 1..Len(cache) : cache[i].key = KeyOf(1)}) = 1
  /\ EntryOf(cache, KeyOf(1)).data = raw_fc[2]
  /\ Len(cache) > 1

====
